---- MODULE Spec2Model ----
(***************************************************************************)
(* The medical-assistant HTTP service of src/api.py (and its earlier copy  *)
(* src/main.py), with the doctor-directory client of src/doctors_api.py.   *)
(*                                                                         *)
(* A Python str is the sequence of its Unicode code points, so that        *)
(* str.lower(), str.strip() and the substring test `in` are computed as    *)
(* Python computes them.  Each literal is followed by its text.            *)
(***************************************************************************)
EXTENDS Integers, Sequences, FiniteSets, TLC

VARIABLES
    current_lang,   \* api.py:100  the process-wide response language
    chat_history,   \* api.py:101  the process-wide list of chat turns
    loop,           \* the request whose handler the event loop is running
    pc,             \* per request: its position in chat_endpoint
    message,        \* per request: req.message
    chat_resp,      \* per request: the local chat_resp of chat_endpoint
    reply_lang,     \* per request: current_lang when chatbot returned
    last_switch,    \* the last language-switch message chatbot processed
    at_entry,       \* current_lang and chat_history as they were when the
                    \* POST /chat handler that is running, or has just
                    \* answered, was entered; as they are otherwise
    sent,           \* the response the last step sent, if it sent one
    call,           \* the function applied by the function-level specifications
    arg,            \* its arguments
    result          \* its result

vars == <<current_lang, chat_history, loop, pc, message, chat_resp, reply_lang,
          last_switch, at_entry, sent, call, arg, result>>

----------------------------------------------------------------------------
(* Python values *)

None == [kind |-> "none"]
Str(s) == [kind |-> "str", val |-> s]
Dict(d) == [kind |-> "dict", val |-> d]
List(l) == [kind |-> "list", val |-> l]
Num(n) == [kind |-> "num", val |-> n]
NaN == [kind |-> "float", val |-> "nan"]
Tuple(t) == [kind |-> "tuple", val |-> t]
Raised(e) == [kind |-> "raised", val |-> e]

IsStr(v) == v.kind = "str"
IsDict(v) == v.kind = "dict"
IsList(v) == v.kind = "list"
IsRaised(v) == v.kind = "raised"

Langs == {"ar", "en", "fr"}

----------------------------------------------------------------------------
(* str operations *)

\* str.lower() on one code point: A-Z and the Latin-1 capitals have a lower
\* case 32 above; Arabic letters, digits, spaces and emoji have none.
LowerChar(c) ==
    IF (c >= 65 /\ c <= 90) \/ (c >= 192 /\ c <= 222 /\ c # 215)
    THEN c + 32 ELSE c

UpperChar(c) ==
    IF (c >= 97 /\ c <= 122) \/ (c >= 224 /\ c <= 254 /\ c # 247)
    THEN c - 32 ELSE c

NoLower(s) == s

Lower(s) == [i \in 1..Len(s) |-> LowerChar(s[i])]

\* sub in s
Contains(sub, s) ==
    \E i \in 0..(Len(s) - Len(sub)) : \A j \in 1..Len(sub) : s[i + j] = sub[j]

\* any(word in text for word in words)
AnyIn(words, text) == \E k \in 1..Len(words) : Contains(words[k], text)

IsSpace(c) == c \in {9, 10, 11, 12, 13, 28, 29, 30, 31, 32, 133, 160}

\* str.strip()
RECURSIVE LStrip(_)
LStrip(s) == IF s # <<>> /\ IsSpace(Head(s)) THEN LStrip(Tail(s)) ELSE s

RECURSIVE RStrip(_)
RStrip(s) ==
    IF s # <<>> /\ IsSpace(s[Len(s)]) THEN RStrip(SubSeq(s, 1, Len(s) - 1)) ELSE s

NoStrip(s) == s

Strip(s) == RStrip(LStrip(s))

RECURSIVE Join(_, _)
Join(sep, parts) ==
    IF parts = <<>> THEN <<>>
    ELSE IF Len(parts) = 1 THEN parts[1]
    ELSE parts[1] \o sep \o Join(sep, Tail(parts))

\* str(n) for n >= 0
RECURSIVE IntStr(_)
IntStr(n) == IF n < 10 THEN <<48 + n>> ELSE IntStr(n \div 10) \o <<48 + (n % 10)>>

----------------------------------------------------------------------------
(* Translations and greetings *)

\* "كلمني عربي", "speak arabic"
SwitchArPhrases == <<<<1603, 1604, 1605, 1606, 1610, 32, 1593, 1585, 1576, 1610>>, <<115, 112, 101, 97, 107, 32, 97, 114, 97, 98, 105, 99>>>>
\* "speak english", "كلمني انجليزي"
SwitchEnPhrases == <<<<115, 112, 101, 97, 107, 32, 101, 110, 103, 108, 105, 115, 104>>, <<1603, 1604, 1605, 1606, 1610, 32, 1575, 1606, 1580, 1604, 1610, 1586, 1610>>>>
\* "speak french", "كلمني فرنسي"
SwitchFrPhrases == <<<<115, 112, 101, 97, 107, 32, 102, 114, 101, 110, 99, 104>>, <<1603, 1604, 1605, 1606, 1610, 32, 1601, 1585, 1606, 1587, 1610>>>>

\* "تمام ✅ هكلمك بالعربي!"
AckAr == <<1578, 1605, 1575, 1605, 32, 9989, 32, 1607, 1603, 1604, 1605, 1603, 32, 1576, 1575, 1604, 1593, 1585, 1576, 1610, 33>>
\* "Okay ✅ I'll speak English now!"
AckEn == <<79, 107, 97, 121, 32, 9989, 32, 73, 39, 108, 108, 32, 115, 112, 101, 97, 107, 32, 69, 110, 103, 108, 105, 115, 104, 32, 110, 111, 119, 33>>
\* "تمام ✅ هكلمك بالفرنساوي من دلوقتي!"
AckFr == <<1578, 1605, 1575, 1605, 32, 9989, 32, 1607, 1603, 1604, 1605, 1603, 32, 1576, 1575, 1604, 1601, 1585, 1606, 1587, 1575, 1608, 1610, 32, 1605, 1606, 32, 1583, 1604, 1608, 1602, 1578, 1610, 33>>

\* ar: "اهلا", "مرحبا", "هلا", "السلام عليكم"; en: "hello", "hi", "hey";
\* fr: "bonjour", "salut"
greetings ==
    [lang \in Langs |->
        CASE lang = "ar" -> <<<<1575, 1607, 1604, 1575>>, <<1605, 1585, 1581, 1576, 1575>>, <<1607, 1604, 1575>>, <<1575, 1604, 1587, 1604, 1575, 1605, 32, 1593, 1604, 1610, 1603, 1605>>>>
          [] lang = "en" -> <<<<104, 101, 108, 108, 111>>, <<104, 105>>, <<104, 101, 121>>>>
          [] lang = "fr" -> <<<<98, 111, 110, 106, 111, 117, 114>>, <<115, 97, 108, 117, 116>>>>]

\* ar: "أهلا بيك 👋، قوللي أعراضك؟"; en: "Hello 👋, tell me your symptoms?";
\* fr: "Bonjour 👋, dites-moi vos symptômes?"
greeting_responses ==
    [lang \in Langs |->
        CASE lang = "ar" -> <<1571, 1607, 1604, 1575, 32, 1576, 1610, 1603, 32, 128075, 1548, 32, 1602, 1608, 1604, 1604, 1610, 32, 1571, 1593, 1585, 1575, 1590, 1603, 1567>>
          [] lang = "en" -> <<72, 101, 108, 108, 111, 32, 128075, 44, 32, 116, 101, 108, 108, 32, 109, 101, 32, 121, 111, 117, 114, 32, 115, 121, 109, 112, 116, 111, 109, 115, 63>>
          [] lang = "fr" -> <<66, 111, 110, 106, 111, 117, 114, 32, 128075, 44, 32, 100, 105, 116, 101, 115, 45, 109, 111, 105, 32, 118, 111, 115, 32, 115, 121, 109, 112, 116, 244, 109, 101, 115, 63>>]

\* disease_translations: English name -> language -> display name
\* "Common Cold": "نزلة برد", "Rhume commun"; "Diabetes": "داء السكري", "Diabète";
\* "Migraine": "صداع نصفي", "Migraine"; "Malaria": "الملاريا", "Paludisme";
\* "Tuberculosis": "السل", "Tuberculose"
disease_translations ==
    (<<67, 111, 109, 109, 111, 110, 32, 67, 111, 108, 100>> :> ("ar" :> <<1606, 1586, 1604, 1577, 32, 1576, 1585, 1583>> @@ "fr" :> <<82, 104, 117, 109, 101, 32, 99, 111, 109, 109, 117, 110>>)) @@
    (<<68, 105, 97, 98, 101, 116, 101, 115>> :> ("ar" :> <<1583, 1575, 1569, 32, 1575, 1604, 1587, 1603, 1585, 1610>> @@ "fr" :> <<68, 105, 97, 98, 232, 116, 101>>)) @@
    (<<77, 105, 103, 114, 97, 105, 110, 101>> :> ("ar" :> <<1589, 1583, 1575, 1593, 32, 1606, 1589, 1601, 1610>> @@ "fr" :> <<77, 105, 103, 114, 97, 105, 110, 101>>)) @@
    (<<77, 97, 108, 97, 114, 105, 97>> :> ("ar" :> <<1575, 1604, 1605, 1604, 1575, 1585, 1610, 1575>> @@ "fr" :> <<80, 97, 108, 117, 100, 105, 115, 109, 101>>)) @@
    (<<84, 117, 98, 101, 114, 99, 117, 108, 111, 115, 105, 115>> :> ("ar" :> <<1575, 1604, 1587, 1604>> @@ "fr" :> <<84, 117, 98, 101, 114, 99, 117, 108, 111, 115, 101>>))

----------------------------------------------------------------------------
(* Data loaded at start-up: the label encoder and the two reference tables. *)
(* The files are not part of the repository; these contents have a disease  *)
(* in both tables, one in each table only, and one in neither.              *)

\* le.classes_: "Acne", "Diabetes", "Malaria", "Migraine"
le_classes == <<<<65, 99, 110, 101>>, <<68, 105, 97, 98, 101, 116, 101, 115>>, <<77, 97, 108, 97, 114, 105, 97>>, <<77, 105, 103, 114, 97, 105, 110, 101>>>>

\* disease_desc: "Diabetes" and "Malaria" have a description
disease_desc ==
    (<<68, 105, 97, 98, 101, 116, 101, 115>> :> Str(<<72, 105, 103, 104, 32, 98, 108, 111, 111, 100, 32, 115, 117, 103, 97, 114, 46>>)) @@
    (<<77, 97, 108, 97, 114, 105, 97>> :> Str(<<77, 111, 115, 113, 117, 105, 116, 111, 45, 98, 111, 114, 110, 101, 32, 105, 110, 102, 101, 99, 116, 105, 111, 110, 46>>))

\* disease_prec: the four precaution cells of a row; an empty cell is NaN
disease_prec ==
    (<<68, 105, 97, 98, 101, 116, 101, 115>> :> <<Str(<<100, 105, 101, 116>>), Str(<<32, 9>>), NaN, Str(<<101, 120, 101, 114, 99, 105, 115, 101>>)>>) @@
    (<<77, 105, 103, 114, 97, 105, 110, 101>> :> <<NaN, Str(<<114, 101, 115, 116>>), Str(<<>>), Str(<<32, 110, 111, 32, 115, 116, 114, 101, 115, 115, 32>>)>>)

\* d.get(k, default)
DictGet(d, k, default) == IF k \in DOMAIN d THEN d[k] ELSE default

----------------------------------------------------------------------------
(* predict_top *)

\* A probability is a whole number of ProbScale-ths.
ProbScale == 6

\* numpy.argsort: the indices in ascending order of value; the order among
\* equal values is whatever the sort produces.
Argsort(probs) ==
    {p \in [1..Len(probs) -> 1..Len(probs)] :
        /\ \A i, j \in 1..Len(probs) : i # j => p[i] # p[j]
        /\ \A i \in 1..(Len(probs) - 1) : probs[p[i]] <= probs[p[i + 1]]}

\* s[start:], a negative start counting from the end
PySliceFrom(s, start) ==
    LET n == Len(s)
        b == IF start < 0
             THEN (IF n + start < 0 THEN 0 ELSE n + start)
             ELSE (IF start > n THEN n ELSE start)
    IN SubSeq(s, b + 1, n)

\* s[::-1]
Reverse(s) == [i \in 1..Len(s) |-> s[Len(s) + 1 - i]]

\* top_idx = probs.argsort()[-top_n:][::-1]
TopIdx(order, top_n) == Reverse(PySliceFrom(order, -top_n))

\* The classifier's part of predict_top: the translation or the inference
\* raises, or yields the probabilities with the order argsort gives them.
ModelRun(probs, order) == [kind |-> "probs", probs |-> probs, order |-> order]

ModelRuns(P) == UNION {{ModelRun(p, o) : o \in Argsort(p)} : p \in P}

predict_top(run, lang, detected, top_n) ==
    IF IsRaised(run) THEN run
    ELSE
        LET top_idx == TopIdx(run.order, top_n)
            diseases == [i \in 1..Len(top_idx) |-> le_classes[top_idx[i]]]
            confidences == [i \in 1..Len(top_idx) |-> run.probs[top_idx[i]]]
            lg == IF lang = "None" THEN detected ELSE lang
            translated ==
                [i \in 1..Len(top_idx) |->
                    DictGet(DictGet(disease_translations, diseases[i], <<>>),
                            lg, diseases[i])]
        IN List([i \in 1..Len(top_idx) |->
                    <<diseases[i], translated[i], confidences[i]>>])

TopNDefault == 10

\* predict_disease: top[0]
predict_disease(run, lang, detected) ==
    LET top == predict_top(run, lang, detected, TopNDefault) IN
    IF IsRaised(top) THEN top
    ELSE IF top.val = <<>> THEN Raised("IndexError")
    ELSE Tuple(top.val[1])

----------------------------------------------------------------------------
(* chatbot *)

SwitchTargetFrenchAsEnglish(user_input) ==
    IF AnyIn(SwitchArPhrases, Lower(user_input)) THEN "ar"
    ELSE IF AnyIn(SwitchEnPhrases, Lower(user_input)) THEN "en"
    ELSE IF AnyIn(SwitchFrPhrases, Lower(user_input)) THEN "en"
    ELSE "none"

SwitchTargetFrenchFirst(user_input) ==
    IF AnyIn(SwitchFrPhrases, Lower(user_input)) THEN "fr"
    ELSE IF AnyIn(SwitchArPhrases, Lower(user_input)) THEN "ar"
    ELSE IF AnyIn(SwitchEnPhrases, Lower(user_input)) THEN "en"
    ELSE "none"

\* The language-switch tests, in their order; "none" when none matches.
SwitchTarget(user_input) ==
    IF AnyIn(SwitchArPhrases, Lower(user_input)) THEN "ar"
    ELSE IF AnyIn(SwitchEnPhrases, Lower(user_input)) THEN "en"
    ELSE IF AnyIn(SwitchFrPhrases, Lower(user_input)) THEN "fr"
    ELSE "none"

Ack(target) ==
    CASE target = "ar" -> AckAr
      [] target = "en" -> AckEn
      [] target = "fr" -> AckFr

\* for lang, words in greetings.items(): if any(word in user_input.lower() ...)
IsGreeting(user_input) ==
    \E lang \in Langs : AnyIn(greetings[lang], Lower(user_input))

GreetingReplyEnglish(cur) == greeting_responses["en"]

GreetingReply(cur) == DictGet(greeting_responses, cur, greeting_responses["en"])

\* disease_desc.get(disease_en, "No description available.")
Description(disease_en) ==
    DictGet(disease_desc, disease_en, Str(<<78, 111, 32, 100, 101, 115, 99, 114, 105, 112, 116, 105, 111, 110, 32, 97, 118, 97, 105, 108, 97, 98, 108, 101, 46>>))

\* [p for p in ps if isinstance(p, str) and p.strip() != ""]
RECURSIVE KeepPrecautions(_)
KeepPrecautions(ps) ==
    IF ps = <<>> THEN <<>>
    ELSE IF IsStr(Head(ps)) /\ Strip(Head(ps).val) # <<>>
         THEN <<Head(ps)>> \o KeepPrecautions(Tail(ps))
         ELSE KeepPrecautions(Tail(ps))

Precautions(disease_en) == KeepPrecautions(DictGet(disease_prec, disease_en, <<>>))

\* f"{prob:.2f}": the probability rounded to hundredths
Fmt2f(prob) ==
    LET q == (prob * 100) \div ProbScale
        r == (prob * 100) % ProbScale
        h == IF 2 * r > ProbScale \/ (2 * r = ProbScale /\ q % 2 = 1) THEN q + 1 ELSE q
    IN IntStr(h \div 100) \o <<46>> \o <<48 + ((h \div 10) % 10), 48 + (h % 10)>>

\* the "response" text of a prediction
ResponseText(disease_out, prob, description, precautions) ==
    <<128203, 32, 69, 120, 112, 101, 99, 116, 101, 100, 32, 68, 105, 115, 101, 97, 115, 101, 58, 32>> \o disease_out \o <<32, 40, 67, 111, 110, 102, 105, 100, 101, 110, 99, 101, 58, 32>> \o Fmt2f(prob)
    \o <<41, 10, 10>> \o <<128221, 32, 68, 101, 115, 99, 114, 105, 112, 116, 105, 111, 110, 58, 32>> \o description.val \o <<10, 10>>
    \o (IF precautions # <<>>
        THEN <<9989, 32, 80, 114, 101, 99, 97, 117, 116, 105, 111, 110, 115, 58, 10>>
             \o Join(<<10>>, [i \in 1..Len(precautions) |->
                                IntStr(i) \o <<46, 32>> \o precautions[i].val])
        ELSE <<>>)

\* chatbot(user_input) with current_lang = cur; `run` is what the classifier
\* does if chatbot calls it.  The result is the new current_lang and what chatbot
\* returns or raises.
chatbot(user_input, cur, run) ==
    IF SwitchTarget(user_input) # "none"
    THEN [lang |-> SwitchTarget(user_input),
          ret |-> Str(Ack(SwitchTarget(user_input)))]
    ELSE IF IsGreeting(user_input)
    THEN [lang |-> cur, ret |-> Str(GreetingReply(cur))]
    ELSE
        LET top == predict_disease(run, cur, cur) IN
        IF IsRaised(top) THEN [lang |-> cur, ret |-> top]
        ELSE
            LET disease_en == top.val[1]
                disease_out == top.val[2]
                prob == top.val[3]
                description == Description(disease_en)
                precautions == Precautions(disease_en)
            IN [lang |-> cur,
                ret |-> Dict([response |-> Str(ResponseText(disease_out, prob,
                                                            description, precautions)),
                              disease |-> Str(disease_out),
                              description |-> description,
                              precautions |-> List(precautions),
                              confidence |-> Num(prob)])]

\* Whether chatbot(user_input) calls the classifier.
CallsClassifier(user_input) ==
    SwitchTarget(user_input) = "none" /\ ~IsGreeting(user_input)

----------------------------------------------------------------------------
(* get_doctors (src/doctors_api.py) *)

\* What requests.get does: it raises (no connection, timeout), or there is a
\* response with a status and a body that is JSON or is not.
ApiRaises(e) == [kind |-> "exception", exc |-> e]
ApiResponse(status, body) == [kind |-> "response", status |-> status, body |-> body]
NotJson == [kind |-> "notjson"]

\* params, built from the two optional arguments ("" and None are falsy)
Params(disease, symptom) ==
    (IF disease \in {"", "None"} THEN <<>> ELSE [disease |-> disease]) @@
    (IF symptom \in {"", "None"} THEN <<>> ELSE [symptom |-> symptom])

\* response.raise_for_status() raises HTTPError for 4xx and 5xx
NeverRaises(status) == FALSE

RaiseForStatus(status) == status >= 400 /\ status < 600

\* not data
Falsy(v) ==
    \/ v.kind = "none"
    \/ (v.kind \in {"list", "str"} /\ Len(v.val) = 0)
    \/ (v.kind = "dict" /\ DOMAIN v.val = {})
    \/ (v.kind = "num" /\ v.val = 0)

ContactFromContact(doc) ==
    IF IsDict(doc)
    THEN Dict([name |-> DictGet(doc.val, "name", None),
               specialization |-> DictGet(doc.val, "specialization", None),
               hospital |-> DictGet(doc.val, "hospital", None),
               address |-> DictGet(doc.val, "address", None),
               contact |-> DictGet(doc.val, "contact", None),
               rating |-> DictGet(doc.val, "rating", None)])
    ELSE Dict([raw_entry |-> doc])

\* one entry of doctors_list
DoctorEntry(doc) ==
    IF IsDict(doc)
    THEN Dict([name |-> DictGet(doc.val, "name", None),
               specialization |-> DictGet(doc.val, "specialization", None),
               hospital |-> DictGet(doc.val, "hospital", None),
               address |-> DictGet(doc.val, "address", None),
               contact |-> DictGet(doc.val, "phone", None),
               rating |-> DictGet(doc.val, "rating", None)])
    ELSE Dict([raw_entry |-> doc])

\* for doc in data: a list yields its entries, a str its characters; a
\* number is not iterable
Iterable(v) == v.kind \in {"list", "str"}

Iterate(v) ==
    IF v.kind = "list" THEN v.val
    ELSE [i \in 1..Len(v.val) |-> Str(<<v.val[i]>>)]

get_doctors(outcome) ==
    IF outcome.kind = "exception"
    THEN Dict([error |-> Str(<<70, 97, 105, 108, 101, 100, 32, 116, 111, 32, 102, 101, 116, 99, 104, 32, 100, 111, 99, 116, 111, 114, 115, 58, 32>> \o outcome.exc)])
    ELSE IF RaiseForStatus(outcome.status)
    THEN Dict([error |-> Str(<<70, 97, 105, 108, 101, 100, 32, 116, 111, 32, 102, 101, 116, 99, 104, 32, 100, 111, 99, 116, 111, 114, 115, 58, 32>>
                              \o IntStr(outcome.status) \o <<32, 69, 114, 114, 111, 114>>)])
    ELSE IF outcome.body.kind = "notjson"
    THEN Dict([error |-> Str(<<73, 110, 118, 97, 108, 105, 100, 32, 114, 101, 115, 112, 111, 110, 115, 101, 32, 102, 111, 114, 109, 97, 116, 32, 102, 114, 111, 109, 32, 68, 111, 99, 116, 111, 114, 115, 32, 65, 80, 73, 46>>)])
    ELSE IF ~(IsDict(outcome.body) /\ "doctors" \in DOMAIN outcome.body.val)
            /\ ~IsList(outcome.body)
    THEN Dict([message |-> Str(<<85, 110, 101, 120, 112, 101, 99, 116, 101, 100, 32, 65, 80, 73, 32, 114, 101, 115, 112, 111, 110, 115, 101, 32, 115, 116, 114, 117, 99, 116, 117, 114, 101, 46>>),
               raw |-> outcome.body])
    ELSE
        LET data == IF IsDict(outcome.body) THEN outcome.body.val["doctors"]
                    ELSE outcome.body
        IN IF Falsy(data)
           THEN Dict([message |->
                        Str(<<78, 111, 32, 100, 111, 99, 116, 111, 114, 115, 32, 102, 111, 117, 110, 100, 32, 102, 111, 114, 32, 116, 104, 101, 32, 103, 105, 118, 101, 110, 32, 100, 105, 115, 101, 97, 115, 101, 32, 111, 114, 32, 115, 121, 109, 112, 116, 111, 109, 46>>)])
           ELSE IF ~Iterable(data) THEN Raised("TypeError")
           ELSE LET doctors_list ==
                        [i \in 1..Len(Iterate(data)) |-> DoctorEntry(Iterate(data)[i])]
                IN Dict([count |-> Num(Len(doctors_list)),
                         doctors |-> List(doctors_list)])

----------------------------------------------------------------------------
(* The HTTP service: POST /chat, GET /, POST /image, GET /find_doctors *)

\* Connections on which a client may have a request.
MaxClients == 2
\* Turns the history may reach before no further request is sent.
MaxTurns == 2

Clients == 1..MaxClients

\* The messages clients send: language switches (with the language each asks
\* for), greetings, and symptom descriptions.
\* "Speak Arabic" -> ar, "speak english" -> en, "كلمني فرنسي" -> fr
SwitchMessages ==
    (<<83, 112, 101, 97, 107, 32, 65, 114, 97, 98, 105, 99>> :> "ar") @@ (<<115, 112, 101, 97, 107, 32, 101, 110, 103, 108, 105, 115, 104>> :> "en") @@
    (<<1603, 1604, 1605, 1606, 1610, 32, 1601, 1585, 1606, 1587, 1610>> :> "fr")

\* "Hello"
GreetingMessages == {<<72, 101, 108, 108, 111>>}

\* "fever", "Cough"
SymptomMessages == {<<102, 101, 118, 101, 114>>, <<67, 111, 117, 103, 104>>}

Messages == DOMAIN SwitchMessages \cup GreetingMessages \cup SymptomMessages

\* The probabilities with one ProbScale-th on every class but i.
Peaked(i) ==
    [j \in 1..Len(le_classes) |-> IF j = i THEN ProbScale - (Len(le_classes) - 1) ELSE 1]

\* What a classifier call may do: raise (the translation or the inference
\* fails), or predict.
ClassifierFails == Raised("ClassifierError")

ServiceRuns == {ClassifierFails} \cup ModelRuns({Peaked(1)})

\* The handlers are coroutines (async def) run by one event loop, and
\* chat_endpoint has no await: from its first statement to its return no other
\* handler runs.  loop = 0 when the event loop runs no handler.
LoopAlwaysIdle == TRUE

LoopIdle == loop = 0

Pending == {r \in Clients : pc[r] # "idle"}

Response(endpoint, r, request, payload) ==
    [endpoint |-> endpoint, client |-> r, request |-> request, payload |-> payload]

NoResponse == Response("none", 0, <<>>, None)

\* The shared state a handler finds when it is entered.
SharedState == [current_lang |-> current_lang, chat_history |-> chat_history]

\* A POST /chat request arrives on connection r.
Receive(r, m) ==
    /\ pc[r] = "idle"
    /\ Len(chat_history) + Cardinality(Pending) < MaxTurns
    /\ pc' = [pc EXCEPT ![r] = "received"]
    /\ message' = [message EXCEPT ![r] = m]
    /\ sent' = NoResponse
    /\ at_entry' = IF LoopIdle THEN SharedState ELSE at_entry
    /\ UNCHANGED <<current_lang, chat_history, loop, chat_resp, reply_lang,
                   last_switch, call, arg, result>>

\* chat_resp = chatbot(req.message)
CallChatbot(r) ==
    /\ pc[r] = "received"
    /\ LoopIdle
    /\ \E run \in ServiceRuns :
        LET c == chatbot(message[r], current_lang, run) IN
        /\ current_lang' = c.lang
        /\ IF IsRaised(c.ret)
           THEN /\ pc' = [pc EXCEPT ![r] = "idle"]
                /\ message' = [message EXCEPT ![r] = <<>>]
                /\ sent' = Response("chat", r, message[r], c.ret)
                /\ UNCHANGED <<loop, chat_resp, reply_lang>>
           ELSE /\ pc' = [pc EXCEPT ![r] = "append"]
                /\ chat_resp' = [chat_resp EXCEPT ![r] = c.ret]
                /\ reply_lang' = [reply_lang EXCEPT ![r] = c.lang]
                /\ loop' = r
                /\ sent' = NoResponse
                /\ UNCHANGED message
    /\ last_switch' = IF message[r] \in DOMAIN SwitchMessages THEN message[r]
                      ELSE last_switch
    /\ at_entry' = SharedState
    /\ UNCHANGED <<chat_history, call, arg, result>>

\* chat_history.append({"user": req.message, "bot": chat_resp["response"]});
\* subscripting a str with "response" raises TypeError
AppendTurn(r) ==
    /\ pc[r] = "append"
    /\ IF IsDict(chat_resp[r])
       THEN /\ chat_history' = Append(chat_history,
                                      [user |-> Str(message[r]),
                                       bot |-> chat_resp[r].val.response])
            /\ pc' = [pc EXCEPT ![r] = "top10"]
            /\ sent' = NoResponse
            /\ UNCHANGED <<loop, message, chat_resp, reply_lang>>
       ELSE /\ pc' = [pc EXCEPT ![r] = "idle"]
            /\ sent' = Response("chat", r, message[r], Raised("TypeError"))
            /\ loop' = 0
            /\ message' = [message EXCEPT ![r] = <<>>]
            /\ chat_resp' = [chat_resp EXCEPT ![r] = None]
            /\ reply_lang' = [reply_lang EXCEPT ![r] = "none"]
            /\ UNCHANGED chat_history
    /\ UNCHANGED <<current_lang, last_switch, at_entry, call, arg, result>>

Top10Entry(d) ==
    [disease_en |-> Str(d[1]), disease_translated |-> Str(d[2]), confidence |-> Num(d[3])]

\* top10 = predict_top(req.message, current_lang, top_n=10) and the return
ReturnTop10(r) ==
    /\ pc[r] = "top10"
    /\ \E run \in ServiceRuns :
        LET top10 == predict_top(run, current_lang, current_lang, TopNDefault) IN
        sent' = Response("chat", r, message[r],
                    IF IsRaised(top10) THEN top10
                    ELSE Dict([chat |-> chat_resp[r],
                               history |-> List(chat_history),
                               top10 |-> List([i \in 1..Len(top10.val) |->
                                                 Top10Entry(top10.val[i])])]))
    /\ pc' = [pc EXCEPT ![r] = "idle"]
    /\ loop' = 0
    /\ message' = [message EXCEPT ![r] = <<>>]
    /\ chat_resp' = [chat_resp EXCEPT ![r] = None]
    /\ reply_lang' = [reply_lang EXCEPT ![r] = "none"]
    /\ UNCHANGED <<current_lang, chat_history, last_switch, at_entry, call, arg, result>>

RootClearsHistory ==
    /\ LoopIdle
    /\ sent' = Response("root", 0, <<>>, Dict([message |-> Str(<<>>)]))
    /\ chat_history' = <<>>
    /\ at_entry' = SharedState
    /\ UNCHANGED <<current_lang, loop, pc, message, chat_resp, reply_lang,
                   last_switch, call, arg, result>>

\* GET /
Root ==
    /\ LoopIdle
    /\ sent' = Response("root", 0, <<>>, Dict([message |->
            Str(<<65, 73, 32, 77, 101, 100, 105, 99, 97, 108, 32, 65, 115, 115, 105, 115, 116, 97, 110, 116, 32, 43, 32, 83, 107, 105, 110, 32, 68, 105, 115, 101, 97, 115, 101, 32, 68, 101, 116, 101, 99, 116, 111, 114, 32, 114, 117, 110, 110, 105, 110, 103, 32, 128640>>)]))
    /\ at_entry' = SharedState
    /\ UNCHANGED <<current_lang, chat_history, loop, pc, message, chat_resp,
                   reply_lang, last_switch, call, arg, result>>

\* POST /image: the image classifier names a label and the generation service
\* explains it, or one of them raises.
Image ==
    /\ LoopIdle
    /\ \E ok \in BOOLEAN :
        sent' = Response("image", 0, <<>>,
                    IF ok THEN Dict([detected_disease |-> Str(<<69, 99, 122, 101, 109, 97>>),
                                     details |-> Str(<<69, 99, 122, 101, 109, 97, 32, 105, 115, 32, 46, 46, 46>>)])
                    ELSE Raised("ImageError"))
    /\ at_entry' = SharedState
    /\ UNCHANGED <<current_lang, chat_history, loop, pc, message, chat_resp,
                   reply_lang, last_switch, call, arg, result>>

\* GET /find_doctors
ServiceApiOutcomes ==
    {ApiRaises(<<116, 105, 109, 101, 111, 117, 116>>), ApiResponse(200, List(<<Dict([name |-> Str(<<68, 114, 32, 65>>)])>>))}

FindDoctors ==
    /\ LoopIdle
    /\ \E outcome \in ServiceApiOutcomes :
        sent' = Response("find_doctors", 0, <<>>, get_doctors(outcome))
    /\ at_entry' = SharedState
    /\ UNCHANGED <<current_lang, chat_history, loop, pc, message, chat_resp,
                   reply_lang, last_switch, call, arg, result>>

Init ==
    /\ current_lang = "en"
    /\ chat_history = <<>>
    /\ loop = 0
    /\ pc = [r \in Clients |-> "idle"]
    /\ message = [r \in Clients |-> <<>>]
    /\ chat_resp = [r \in Clients |-> None]
    /\ reply_lang = [r \in Clients |-> "none"]
    /\ last_switch = <<>>
    /\ at_entry = SharedState
    /\ sent = NoResponse
    /\ call = "none"
    /\ arg = None
    /\ result = None

Next ==
    \/ \E r \in Clients, m \in Messages : Receive(r, m)
    \/ \E r \in Clients : CallChatbot(r)
    \/ \E r \in Clients : AppendTurn(r)
    \/ \E r \in Clients : ReturnTop10(r)
    \/ Root
    \/ Image
    \/ FindDoctors

Spec == Init /\ [][Next]_vars

----------------------------------------------------------------------------
(* chatbot called on its own, over a wide set of inputs *)

\* Capital letters a case variant of a phrase may have (besides all capitals).
MaxUpper == 2

Upper(s) == [i \in 1..Len(s) |-> UpperChar(s[i])]

CaseVariants(s) ==
    {[i \in 1..Len(s) |-> IF i \in U THEN UpperChar(s[i]) ELSE s[i]] :
        U \in {V \in SUBSET (1..Len(s)) : Cardinality(V) <= MaxUpper}}
    \cup {Upper(s)}

Elements(seq) == {seq[k] : k \in 1..Len(seq)}

\* Every switch phrase of each language, in mixed case.
SwitchInputs ==
    [t \in Langs |->
        UNION {CaseVariants(p) :
                p \in Elements(CASE t = "ar" -> SwitchArPhrases
                                 [] t = "en" -> SwitchEnPhrases
                                 [] t = "fr" -> SwitchFrPhrases)}]

\* Every greeting token in mixed case, alone and inside a sentence
\* ("oh <token> there").
GreetingInputs ==
    UNION {CaseVariants(w) \cup {<<111, 104, 32>> \o w \o <<32, 116, 104, 101, 114, 101>>} :
            w \in UNION {Elements(greetings[lang]) : lang \in Langs}}

\* "fever", "Cough", "j'ai mal à la tête"
SymptomInputs == {<<102, 101, 118, 101, 114>>, <<67, 111, 117, 103, 104>>, <<106, 39, 97, 105, 32, 109, 97, 108, 32, 224, 32, 108, 97, 32, 116, 234, 116, 101>>}

\* Messages matching several branches: "hello, speak english",
\* "speak french not speak arabic", "I have chills", "speak hindi",
\* "Speak English or Speak Arabic", "speak french then speak english",
\* "Hey, speak french, speak english, speak arabic", "مرحبا كلمني فرنسي",
\* "كلمني انجليزي كلمني عربي", "Salut! SPEAK FRENCH"
MixedInputs ==
    {<<104, 101, 108, 108, 111, 44, 32, 115, 112, 101, 97, 107, 32, 101, 110, 103, 108, 105, 115, 104>>, <<115, 112, 101, 97, 107, 32, 102, 114, 101, 110, 99, 104, 32, 110, 111, 116, 32, 115, 112, 101, 97, 107, 32, 97, 114, 97, 98, 105, 99>>,
     <<73, 32, 104, 97, 118, 101, 32, 99, 104, 105, 108, 108, 115>>, <<115, 112, 101, 97, 107, 32, 104, 105, 110, 100, 105>>,
     <<83, 112, 101, 97, 107, 32, 69, 110, 103, 108, 105, 115, 104, 32, 111, 114, 32, 83, 112, 101, 97, 107, 32, 65, 114, 97, 98, 105, 99>>, <<115, 112, 101, 97, 107, 32, 102, 114, 101, 110, 99, 104, 32, 116, 104, 101, 110, 32, 115, 112, 101, 97, 107, 32, 101, 110, 103, 108, 105, 115, 104>>,
     <<72, 101, 121, 44, 32, 115, 112, 101, 97, 107, 32, 102, 114, 101, 110, 99, 104, 44, 32, 115, 112, 101, 97, 107, 32, 101, 110, 103, 108, 105, 115, 104, 44, 32, 115, 112, 101, 97, 107, 32, 97, 114, 97, 98, 105, 99>>,
     <<1605, 1585, 1581, 1576, 1575, 32, 1603, 1604, 1605, 1606, 1610, 32, 1601, 1585, 1606, 1587, 1610>>,
     <<1603, 1604, 1605, 1606, 1610, 32, 1575, 1606, 1580, 1604, 1610, 1586, 1610, 32, 1603, 1604, 1605, 1606, 1610, 32, 1593, 1585, 1576, 1610>>,
     <<83, 97, 108, 117, 116, 33, 32, 83, 80, 69, 65, 75, 32, 70, 82, 69, 78, 67, 72>>}

ChatInputs ==
    UNION {SwitchInputs[t] : t \in Langs} \cup GreetingInputs \cup SymptomInputs
    \cup MixedInputs

\* Two classes tie for the top.
TiedProbs ==
    [j \in 1..Len(le_classes) |->
        IF j <= 2 THEN ProbScale \div 2
        ELSE IF j = 3 THEN ProbScale - 2 * (ProbScale \div 2) ELSE 0]

ChatRuns ==
    {ClassifierFails}
    \cup ModelRuns({Peaked(i) : i \in 1..Len(le_classes)} \cup {TiedProbs})

\* The caller has the result; the next call can be made.
CallReturns ==
    /\ call # "none"
    /\ call' = "none"
    /\ arg' = None
    /\ result' = None
    /\ UNCHANGED <<current_lang, chat_history, loop, pc, message, chat_resp,
                   reply_lang, last_switch, at_entry, sent>>

ChatbotCall(user_input, run) ==
    /\ call = "none"
    /\ call' = "chatbot"
    /\ arg' = [user_input |-> user_input, lang |-> current_lang, run |-> run]
    /\ current_lang' = chatbot(user_input, current_lang, run).lang
    /\ result' = chatbot(user_input, current_lang, run).ret
    /\ UNCHANGED <<chat_history, loop, pc, message, chat_resp, reply_lang,
                   last_switch, at_entry, sent>>

NextChat ==
    \/ \E user_input \in ChatInputs :
        \E run \in (IF CallsClassifier(user_input) THEN ChatRuns ELSE {ClassifierFails}) :
            ChatbotCall(user_input, run)
    \/ CallReturns

SpecChat == Init /\ [][NextChat]_vars

----------------------------------------------------------------------------
(* predict_top called on its own *)

\* The largest top_n tried.
MaxTopN == 5

RECURSIVE Sum(_)
Sum(s) == IF s = <<>> THEN 0 ELSE Head(s) + Sum(Tail(s))

\* Every probability vector over the first n classes, for every n.
AllProbs ==
    UNION {{p \in [1..n -> 0..ProbScale] : Sum(p) = ProbScale} : n \in 1..Len(le_classes)}

\* lang, and what detect(symptoms_text) answers when lang is None
LangArgs == {<<"None", "en">>, <<"None", "fr">>, <<"ar", "">>, <<"en", "">>, <<"fr", "">>}

PredictTopCall(run, lang, detected, top_n) ==
    /\ call = "none"
    /\ call' = "predict_top"
    /\ arg' = [run |-> run, lang |-> lang, detected |-> detected, top_n |-> top_n]
    /\ result' = predict_top(run, lang, detected, top_n)
    /\ UNCHANGED <<current_lang, chat_history, loop, pc, message, chat_resp,
                   reply_lang, last_switch, at_entry, sent>>

NextTop ==
    \/ CallReturns
    \/ \E run \in {ClassifierFails} \cup ModelRuns(AllProbs), la \in LangArgs,
       top_n \in 0..MaxTopN :
        PredictTopCall(run, la[1], la[2], top_n)

SpecTop == Init /\ [][NextTop]_vars

----------------------------------------------------------------------------
(* get_doctors called on its own *)

\* The longest doctors list the directory answers with.
MaxDoctors == 2

\* Entries of the directory's answer: with every key, with a name only, with
\* "contact" in place of "phone", with no key, and one that is no mapping.
DocEntries ==
    {Dict([name |-> Str(<<68, 114, 32, 65>>), specialization |-> Str(<<69, 110, 100, 111, 99, 114, 105, 110, 111, 108, 111, 103, 121>>),
           hospital |-> Str(<<67, 105, 116, 121>>), address |-> Str(<<49, 32, 77, 97, 105, 110, 32, 83, 116>>),
           phone |-> Str(<<53, 53, 53, 45, 48, 49, 48, 48>>), rating |-> Num(5)]),
     Dict([name |-> Str(<<68, 114, 32, 66>>)]),
     Dict([name |-> Str(<<68, 114, 32, 67>>), contact |-> Str(<<53, 53, 53, 45, 48, 49, 48, 49>>)]),
     Dict(<<>>),
     Str(<<68, 114, 32, 68>>)}

DocLists == UNION {[1..n -> DocEntries] : n \in 0..MaxDoctors}

ApiBodies ==
    {NotJson, None, Num(5), Str(<<100, 111, 119, 110>>), Dict([message |-> Str(<<104, 105>>)]),
     Dict([doctors |-> None]), Dict([doctors |-> Num(5)]), Dict([doctors |-> Str(<<97, 98>>)])}
    \cup {List(l) : l \in DocLists}
    \cup {Dict([doctors |-> List(l)]) : l \in DocLists}
    \cup {Dict([doctors |-> List(l), total |-> Num(Len(l))]) : l \in DocLists}

ApiOutcomes ==
    {ApiRaises(<<99, 111, 110, 110, 101, 99, 116, 105, 111, 110, 32, 114, 101, 102, 117, 115, 101, 100>>), ApiRaises(<<114, 101, 97, 100, 32, 116, 105, 109, 101, 100, 32, 111, 117, 116>>)}
    \cup {ApiResponse(status, body) : status \in {200, 201, 404, 500}, body \in ApiBodies}

GetDoctorsCall(disease, symptom, outcome) ==
    /\ call = "none"
    /\ call' = "get_doctors"
    /\ arg' = [params |-> Params(disease, symptom), outcome |-> outcome]
    /\ result' = get_doctors(outcome)
    /\ UNCHANGED <<current_lang, chat_history, loop, pc, message, chat_resp,
                   reply_lang, last_switch, at_entry, sent>>

NextDoctors ==
    \/ CallReturns
    \/ \E disease \in {"None", "Diabetes"}, symptom \in {"None", "", "Fever"},
       outcome \in ApiOutcomes :
        GetDoctorsCall(disease, symptom, outcome)

SpecDoctors == Init /\ [][NextDoctors]_vars

----------------------------------------------------------------------------
(* The claims *)

SentByChat == sent.endpoint = "chat"

\* The turn of the request whose response was just sent.
OwnTurn == [user |-> Str(sent.request), bot |-> sent.payload.val.chat.val.response]

\* C1 (Spec): whatever the message (a language switch, a greeting, symptoms),
\* unless the classifier itself fails, POST /chat answers with an object of
\* the fields chat, history and top10, whose history is the whole shared
\* history and ends with the request's own turn (user message, bot response
\* text).
C1_ChatAlwaysAnswers ==
    (SentByChat /\ ~(IsRaised(sent.payload) /\ sent.payload.val = "ClassifierError")) =>
        /\ IsDict(sent.payload)
        /\ DOMAIN sent.payload.val = {"chat", "history", "top10"}
        /\ sent.payload.val.history = List(chat_history)
        /\ chat_history # <<>>
        /\ chat_history[Len(chat_history)] = OwnTurn

\* The acknowledgment the source gives for each language code.
ExpectedAck ==
    [t \in Langs |-> CASE t = "ar" -> AckAr [] t = "en" -> AckEn [] t = "fr" -> AckFr]

\* C2 (SpecChat): chatbot called with a switch phrase in any mix of case, from
\* any current language, sets current_lang to the phrase's code and returns
\* that code's acknowledgment.
C2_SwitchSetsLanguage ==
    call = "chatbot" =>
        \A t \in Langs :
            arg.user_input \in SwitchInputs[t] =>
                current_lang = t /\ result = Str(ExpectedAck[t])

\* "SPEAK FRENCH" while the language is ar
C2_Witness ==
    /\ call = "chatbot"
    /\ arg.user_input = <<83, 80, 69, 65, 75, 32, 70, 82, 69, 78, 67, 72>>
    /\ arg.lang = "ar"
    /\ current_lang = "fr"
    /\ result = Str(AckFr)

IsArabicLetter(c) == c >= 1536 /\ c <= 1791
IsLatinLetter(c) == LowerChar(c) # UpperChar(c)

\* A text in Arabic has Arabic letters and no Latin ones; a text in English or
\* French has Latin letters and no Arabic ones.
WrittenIn(text, t) ==
    IF t = "ar"
    THEN /\ \E i \in 1..Len(text) : IsArabicLetter(text[i])
         /\ \A i \in 1..Len(text) : ~IsLatinLetter(text[i])
    ELSE /\ \E i \in 1..Len(text) : IsLatinLetter(text[i])
         /\ \A i \in 1..Len(text) : ~IsArabicLetter(text[i])

\* C3 (SpecChat): the acknowledgment of a language switch is written in the
\* language switched to.
C3_AckInTargetLanguage ==
    call = "chatbot" =>
        \A t \in Langs :
            arg.user_input \in SwitchInputs[t] => WrittenIn(result.val, t)

\* C4 (SpecChat): chatbot called with a greeting token of any language (and no
\* switch phrase) returns the greeting reply of the current language and
\* leaves the current language as it was; "hello" under en returns exactly
\* "Hello 👋, tell me your symptoms?".
C4_GreetingInCurrentLanguage ==
    (call = "chatbot" /\ arg.user_input \in GreetingInputs) =>
        /\ result = Str(greeting_responses[arg.lang])
        /\ current_lang = arg.lang
        /\ (arg.user_input = <<104, 101, 108, 108, 111>> /\ arg.lang = "en"
                => result = Str(<<72, 101, 108, 108, 111, 32, 128075, 44, 32, 116, 101, 108, 108, 32, 109, 101, 32, 121, 111, 117, 114, 32, 115, 121, 109, 112, 116, 111, 109, 115, 63>>))

\* "bonjour" while the language is ar: the Arabic greeting
C4_Witness ==
    /\ call = "chatbot"
    /\ arg.user_input = <<98, 111, 110, 106, 111, 117, 114>>
    /\ arg.lang = "ar"
    /\ current_lang = "ar"
    /\ result = Str(greeting_responses["ar"])

\* C5 (SpecTop): for every probability vector, label-space size and top_n >= 0,
\* predict_top returns at most top_n entries, in non-increasing order of
\* confidence, and they are the top_n most probable classes: as many as
\* min(top_n, classes), none less probable than a class left out.
C5_TopNContract ==
    (call = "predict_top" /\ IsList(result)) =>
        LET top == result.val
            probs == arg.run.probs
            n == Len(probs)
            chosen == {k \in 1..n : \E i \in 1..Len(top) : top[i][1] = le_classes[k]}
        IN /\ Len(top) <= arg.top_n
           /\ \A i \in 1..(Len(top) - 1) : top[i][3] >= top[i + 1][3]
           /\ Len(top) = (IF arg.top_n < n THEN arg.top_n ELSE n)
           /\ Cardinality(chosen) = Len(top)
           /\ \A i \in 1..Len(top) : \E k \in chosen :
                top[i][1] = le_classes[k] /\ top[i][3] = probs[k]
           /\ \A k \in chosen, j \in (1..n) \ chosen : probs[k] >= probs[j]

\* The same for top_n >= 1.
C5_PositiveTopN == (call = "predict_top" /\ arg.top_n # 0) => C5_TopNContract

\* The directory answered successfully with a list of one or more mapping
\* entries, bare or under the key "doctors".
DoctorsSource ==
    IF IsDict(arg.outcome.body) THEN arg.outcome.body.val.doctors.val
    ELSE arg.outcome.body.val

DoctorsAnswered ==
    /\ call = "get_doctors"
    /\ arg.outcome.kind = "response"
    /\ arg.outcome.status < 400
    /\ \/ IsList(arg.outcome.body)
       \/ /\ IsDict(arg.outcome.body)
          /\ "doctors" \in DOMAIN arg.outcome.body.val
          /\ IsList(arg.outcome.body.val.doctors)
    /\ Len(DoctorsSource) >= 1
    /\ \A i \in 1..Len(DoctorsSource) : IsDict(DoctorsSource[i])

DoctorFields == {"name", "specialization", "hospital", "address", "contact", "rating"}

DoctorsShape ==
    /\ IsDict(result)
    /\ DOMAIN result.val = {"count", "doctors"}
    /\ result.val.count = Num(Len(DoctorsSource))
    /\ IsList(result.val.doctors)
    /\ Len(result.val.doctors.val) = Len(DoctorsSource)
    /\ \A i \in 1..Len(DoctorsSource) :
        /\ IsDict(result.val.doctors.val[i])
        /\ DOMAIN result.val.doctors.val[i].val = DoctorFields

\* C6 as stated (SpecDoctors): count = k and k entries in the source order,
\* each with exactly the six fields and null for every one of the six fields
\* the source entry lacks.
C6_NullWhereSourceLacksField ==
    DoctorsAnswered =>
        /\ DoctorsShape
        /\ \A i \in 1..Len(DoctorsSource) : \A f \in DoctorFields :
            IF f \in DOMAIN DoctorsSource[i].val
            THEN result.val.doctors.val[i].val[f] = DoctorsSource[i].val[f]
            ELSE result.val.doctors.val[i].val[f] = None

\* The source key each field is read from.
SourceKey(f) == IF f = "contact" THEN "phone" ELSE f

\* C6 amended (SpecDoctors): count = k and k entries in the source order, each
\* with exactly the six fields; contact is read from the source key "phone",
\* the other five from the key of their own name, and a field is null when
\* the source entry lacks the key it is read from.
C6_FieldsFromSourceKeys ==
    DoctorsAnswered =>
        /\ DoctorsShape
        /\ \A i \in 1..Len(DoctorsSource) : \A f \in DoctorFields :
            IF SourceKey(f) \in DOMAIN DoctorsSource[i].val
            THEN result.val.doctors.val[i].val[f] = DoctorsSource[i].val[SourceKey(f)]
            ELSE result.val.doctors.val[i].val[f] = None

\* Two entries under "doctors", the first with a phone, the second with a
\* name only.
C6_Witness ==
    /\ DoctorsAnswered
    /\ IsDict(arg.outcome.body)
    /\ result.val.count = Num(2)
    /\ result.val.doctors.val[1].val.contact = Str(<<53, 53, 53, 45, 48, 49, 48, 48>>)
    /\ result.val.doctors.val[2].val.name = Str(<<68, 114, 32, 66>>)
    /\ result.val.doctors.val[2].val.rating = None

HasError(v) == IsDict(v) /\ "error" \in DOMAIN v.val

\* C7 as stated (SpecDoctors): a network failure and every status other than
\* 200 give a payload with an error field, and nothing is raised.
C7_Non200GivesError ==
    (call = "get_doctors"
     /\ (arg.outcome.kind = "exception" \/ arg.outcome.status # 200)) =>
        HasError(result)

\* C7 amended (SpecDoctors): a network failure and every 4xx or 5xx status
\* give a payload with an error field, and nothing is raised.
C7_ErrorStatusGivesError ==
    (call = "get_doctors"
     /\ (arg.outcome.kind = "exception" \/ arg.outcome.status >= 400)) =>
        HasError(result)

\* 404 with a body that lists a doctor
C7_Witness ==
    /\ call = "get_doctors"
    /\ arg.outcome.kind = "response"
    /\ arg.outcome.status = 404
    /\ IsList(arg.outcome.body)
    /\ Len(arg.outcome.body.val) = 1
    /\ HasError(result)

\* The class the classifier ranks first in the call.
TopDisease == le_classes[arg.run.order[Len(arg.run.order)]]

NonBlankStr(p) == IsStr(p) /\ \E i \in 1..Len(p.val) : ~IsSpace(p.val[i])

\* C8 (SpecChat): when the classifier answers, chatbot returns its response
\* object; the description is "No description available." for a disease the
\* description table lacks, the precautions are empty for a disease the
\* precaution table lacks, and otherwise are the table's entries that are
\* non-blank strings, in the table's order.
C8_LookupFallbacks ==
    (call = "chatbot" /\ arg.user_input \in SymptomInputs /\ arg.run.kind = "probs") =>
        /\ IsDict(result)
        /\ TopDisease \notin DOMAIN disease_desc =>
                result.val.description = Str(<<78, 111, 32, 100, 101, 115, 99, 114, 105, 112, 116, 105, 111, 110, 32, 97, 118, 97, 105, 108, 97, 98, 108, 101, 46>>)
        /\ TopDisease \in DOMAIN disease_desc =>
                result.val.description = disease_desc[TopDisease]
        /\ TopDisease \notin DOMAIN disease_prec => result.val.precautions = List(<<>>)
        /\ TopDisease \in DOMAIN disease_prec =>
                result.val.precautions = List(SelectSeq(disease_prec[TopDisease], NonBlankStr))

\* "Migraine" first: no description, two of its four precaution cells kept
C8_Witness ==
    /\ call = "chatbot"
    /\ arg.user_input \in SymptomInputs
    /\ arg.run.kind = "probs"
    /\ TopDisease = <<77, 105, 103, 114, 97, 105, 110, 101>>
    /\ result.val.description = Str(<<78, 111, 32, 100, 101, 115, 99, 114, 105, 112, 116, 105, 111, 110, 32, 97, 118, 97, 105, 108, 97, 98, 108, 101, 46>>)
    /\ result.val.precautions = List(<<Str(<<114, 101, 115, 116>>), Str(<<32, 110, 111, 32, 115, 116, 114, 101, 115, 115, 32>>)>>)

\* C9 (Spec): current_lang is one of ar, en, fr, and is the language asked for
\* by the last language-switch message any client's request brought to chatbot,
\* or en if there was none; no other request changes it.
C9_LanguageIsLastSwitch ==
    /\ current_lang \in Langs
    /\ current_lang = (IF last_switch = <<>> THEN "en" ELSE SwitchMessages[last_switch])

\* Arabic was asked for, then a prediction was made and /image was called.
C9_Witness ==
    /\ current_lang = "ar"
    /\ Len(chat_history) >= 1
    /\ sent.endpoint = "image"

InHandler(r) == pc[r] \in {"append", "top10"}

\* C10 as stated (Spec): while one request is inside chat_endpoint, between
\* its chatbot call and its return, another request's chatbot call can run.
C10_CanInterleave ==
    \A r, q \in Clients :
        (r # q /\ InHandler(r) /\ pc[q] = "received") => ENABLED CallChatbot(q)

\* C10 amended (Spec): a request inside chat_endpoint is the only one there;
\* current_lang stays what its chatbot call left until it returns, its turn is
\* the last of the history from its append to its return, and the history it
\* returns is the whole history and ends with its own turn.
C10_HandlerRunsAlone ==
    /\ \A r \in Clients :
        InHandler(r) =>
            /\ loop = r
            /\ current_lang = reply_lang[r]
            /\ \A q \in Clients \ {r} : ~InHandler(q)
    /\ \A r \in Clients :
        pc[r] = "top10" =>
            /\ chat_history # <<>>
            /\ chat_history[Len(chat_history)] =
                    [user |-> Str(message[r]), bot |-> chat_resp[r].val.response]
    /\ (SentByChat /\ IsDict(sent.payload)) =>
            /\ sent.payload.val.history = List(chat_history)
            /\ chat_history[Len(chat_history)] = OwnTurn

\* One request is past its append while another, a language switch, waits.
C10_Witness ==
    \E r, q \in Clients :
        /\ r # q
        /\ pc[r] = "top10"
        /\ pc[q] = "received"
        /\ message[q] \in DOMAIN SwitchMessages

----------------------------------------------------------------------------
\* The phrases of the switch to language t, as the source lists them.
SwitchPhrasesOf(t) ==
    CASE t = "ar" -> SwitchArPhrases
      [] t = "en" -> SwitchEnPhrases
      [] t = "fr" -> SwitchFrPhrases

\* The lower-cased message has a phrase of the switch to t as a substring.
HasSwitchPhrase(text, t) ==
    \E k \in 1..Len(SwitchPhrasesOf(t)) : Contains(SwitchPhrasesOf(t)[k], Lower(text))

\* The lower-cased message has a greeting token of some language as a substring.
HasGreetingToken(text) ==
    \E lang \in Langs : \E k \in 1..Len(greetings[lang]) :
        Contains(greetings[lang][k], Lower(text))

\* The branches a call can be seen to have taken, from what it returned and
\* what it did to current_lang: a switch returns its acknowledgment and sets
\* the language, a greeting returns a greeting reply and leaves the language,
\* a prediction returns what the classifier's answer gives (a dict, or the
\* classifier's failure) and leaves the language.
BranchesTaken ==
    {t \in Langs : result = Str(ExpectedAck[t]) /\ current_lang = t}
    \cup (IF /\ \E lang \in Langs : result = Str(greeting_responses[lang])
             /\ current_lang = arg.lang
          THEN {"greeting"} ELSE {})
    \cup (IF (IsDict(result) \/ IsRaised(result)) /\ current_lang = arg.lang
          THEN {"prediction"} ELSE {})

\* The branch the priority order switch-to-Arabic, switch-to-English,
\* switch-to-French, greeting, prediction gives a message.
BranchByPriority(text) ==
    IF HasSwitchPhrase(text, "ar") THEN "ar"
    ELSE IF HasSwitchPhrase(text, "en") THEN "en"
    ELSE IF HasSwitchPhrase(text, "fr") THEN "fr"
    ELSE IF HasGreetingToken(text) THEN "greeting"
    ELSE "prediction"

\* C11 (SpecChat): every call of chatbot takes exactly one branch, the first in
\* the order switch-to-Arabic, switch-to-English, switch-to-French, greeting,
\* prediction whose phrases occur in the lower-cased message; a greeting is
\* taken only when no switch phrase occurs, and the classifier is invoked only
\* when neither a switch phrase nor a greeting token occurs.
C11_BranchPriority ==
    call = "chatbot" =>
        /\ BranchesTaken = {BranchByPriority(arg.user_input)}
        /\ ("greeting" \in BranchesTaken
                => \A t \in Langs : ~HasSwitchPhrase(arg.user_input, t))
        /\ ("prediction" \in BranchesTaken
                => /\ \A t \in Langs : ~HasSwitchPhrase(arg.user_input, t)
                   /\ ~HasGreetingToken(arg.user_input))

\* A message with a greeting token and a phrase of each of the three switches,
\* the French one first, sent while the language is fr: the Arabic switch is
\* the branch taken.
C11_Witness ==
    /\ call = "chatbot"
    /\ arg.lang = "fr"
    /\ HasGreetingToken(arg.user_input)
    /\ \A t \in Langs : HasSwitchPhrase(arg.user_input, t)
    /\ BranchesTaken = {"ar"}
    /\ result = Str(AckAr)

----------------------------------------------------------------------------
\* s is a prefix of t
IsPrefix(s, t) == Len(s) <= Len(t) /\ \A i \in 1..Len(s) : s[i] = t[i]

\* The step sends the answer of one of /, /image and /find_doctors.
OtherEndpointAnswers == sent'.endpoint \in {"root", "image", "find_doctors"}

\* The step is a statement of a POST /chat handler.
ChatHandlerStep == \E r \in Clients : pc[r] # "idle" /\ pc'[r] # pc[r]

\* C12 (Spec): the chat history is append-only.  Every step leaves the history
\* a prefix of what it becomes (so, prefix being transitive, the history of any
\* earlier state is a prefix of the history of any later one: no turn removed,
\* modified, reordered or evicted), its length never decreases, a step that
\* changes it is a step of a POST /chat handler and appends exactly one turn,
\* and the steps of /, /image and /find_doctors leave it unchanged.
C12_HistoryAppendOnly ==
    [][/\ IsPrefix(chat_history, chat_history')
       /\ Len(chat_history') >= Len(chat_history)
       /\ (chat_history' # chat_history
              => ChatHandlerStep /\ Len(chat_history') = Len(chat_history) + 1)
       /\ (OtherEndpointAnswers => chat_history' = chat_history)]_vars

\* The history holds two turns, the second appended after the first, and
\* /find_doctors has just answered.
C12_Witness ==
    /\ Len(chat_history) >= 2
    /\ sent.endpoint = "find_doctors"

----------------------------------------------------------------------------
\* The last step ended a POST /chat request with an error.
ChatFailed == SentByChat /\ IsRaised(sent.payload)

\* C13 (Spec): a POST /chat request that ends with an error has no partial
\* effect: when its error is sent, current_lang and chat_history are what they
\* were when its handler was entered.
C13_FailedChatHasNoEffect ==
    ChatFailed =>
        /\ current_lang = at_entry.current_lang
        /\ chat_history = at_entry.chat_history

\* What holds of every failed request: a failure inside chatbot (the first
\* classifier call) leaves both as they were, a TypeError leaves the history
\* as it was, and a failure of the second classifier call leaves the
\* language as it was and the history one turn longer.
C13_EffectsOfFailedChat ==
    ChatFailed =>
        /\ sent.payload.val = "TypeError" => chat_history = at_entry.chat_history
        /\ (sent.payload.val = "ClassifierError"
                => /\ current_lang = at_entry.current_lang
                   /\ \/ chat_history = at_entry.chat_history
                      \/ /\ Len(chat_history) = Len(at_entry.chat_history) + 1
                         /\ IsPrefix(at_entry.chat_history, chat_history)
                         /\ chat_history[Len(chat_history)].user = Str(sent.request))

\* "Speak Arabic" sent while the language is en ends in a TypeError with the
\* language changed to ar.
C13_SwitchFailsLanguageChanged ==
    /\ ChatFailed
    /\ sent.payload.val = "TypeError"
    /\ at_entry.current_lang = "en"
    /\ current_lang = "ar"

\* A symptom message whose second classifier call fails ends in an error
\* with its turn appended to the history.
C13_SecondCallFailsTurnAppended ==
    /\ ChatFailed
    /\ sent.payload.val = "ClassifierError"
    /\ Len(chat_history) = Len(at_entry.chat_history) + 1

====
